---- MODULE Spec2Model ----
(***************************************************************************)
(* The news digest scripts: IndiaNewsDigest (tech_news_automation.py) and  *)
(* TechNewsAutomation (News_Automate/tech_news_automation.py).             *)
(*                                                                         *)
(* Text is a TLA+ string; TLC evaluates Len, \o and SubSeq on strings, so  *)
(* str.lower() and the `in` substring test are computed character by       *)
(* character.  Time is counted in whole hours.                             *)
(***************************************************************************)
EXTENDS Integers, Sequences, FiniteSets, TLC

(***************************************************************************)
(* Bounds of the model.                                                    *)
(***************************************************************************)
\* number of fragments a scored text is put together from
MaxFragments == 3
\* number of processes started one after another
MaxRuns == 3
\* the last hour of the clock
MaxTime == 50
\* how often generate_article_hash is applied to the same articles
MaxHashCalls == 2
\* how many hours before or after the call a judged date lies at most
MaxAge == 26

(***************************************************************************)
(* Strings.                                                                *)
(***************************************************************************)
UpperToLower ==
  ("A" :> "a") @@  ("B" :> "b") @@  ("C" :> "c") @@  ("D" :> "d") @@  ("E" :> "e") @@  ("F" :> "f") @@
  ("G" :> "g") @@  ("H" :> "h") @@  ("I" :> "i") @@  ("J" :> "j") @@  ("K" :> "k") @@  ("L" :> "l") @@
  ("M" :> "m") @@  ("N" :> "n") @@  ("O" :> "o") @@  ("P" :> "p") @@  ("Q" :> "q") @@  ("R" :> "r") @@
  ("S" :> "s") @@  ("T" :> "t") @@  ("U" :> "u") @@  ("V" :> "v") @@  ("W" :> "w") @@  ("X" :> "x") @@
  ("Y" :> "y") @@  ("Z" :> "z")

\* str.lower() on one character (ASCII letters)
LowerChar(c) == IF c \in DOMAIN UpperToLower THEN UpperToLower[c] ELSE c

\* str.lower()
RECURSIVE ToLower(_)
ToLower(s) ==
  IF s = "" THEN ""
  ELSE LowerChar(SubSeq(s, 1, 1)) \o ToLower(SubSeq(s, 2, Len(s)))

\* Python's `needle in haystack` on strings
Contains(haystack, needle) ==
  \E i \in 1..(Len(haystack) - Len(needle) + 1) :
    SubSeq(haystack, i, i + Len(needle) - 1) = needle

\* Python's s[:n]
Prefix(s, n) == SubSeq(s, 1, IF Len(s) < n THEN Len(s) ELSE n)

\* str.count(needle): the number of non-overlapping occurrences
RECURSIVE CountFrom(_, _, _)
CountFrom(haystack, needle, i) ==
  IF i + Len(needle) - 1 > Len(haystack) THEN 0
  ELSE IF SubSeq(haystack, i, i + Len(needle) - 1) = needle
       THEN 1 + CountFrom(haystack, needle, i + Len(needle))
       ELSE CountFrom(haystack, needle, i + 1)

(***************************************************************************)
(* IndiaNewsDigest: the keyword taxonomy (self.upsc_keywords).             *)
(***************************************************************************)
upsc_keywords ==
  [ high   |-> << "UPSC", "Civil Services", "IAS", "IPS", "IFS", "Prelims", "Mains",
                 "GS Paper", "Current Affairs", "Government Scheme", "Policy", "Act",
                 "Amendment", "Bill", "Ordinance", "Parliament", "Constitution",
                 "Supreme Court", "Judgment", "Landmark Case" >>,
    medium |-> << "Economy", "GDP", "Inflation", "Fiscal", "Monetary", "RBI", "Budget",
                 "Agriculture", "Farmers", "Rural", "Employment", "Skill Development",
                 "Education", "Health", "Healthcare", "Infrastructure", "Transport",
                 "Environment", "Climate", "Pollution", "Sustainable", "Renewable",
                 "Technology", "Digital", "AI", "Startup", "Innovation", "Science",
                 "Research", "Space", "Defence", "Security", "International",
                 "Diplomacy" >>,
    low    |-> << "State", "Regional", "Development", "Social", "Welfare", "Women",
                 "Children", "Senior Citizens", "Minorities", "Tribal", "SC/ST",
                 "Urban", "Smart City", "Tourism", "Culture", "Heritage", "History",
                 "Geography", "Disaster", "Management", "Governance", "Transparency" >> ]

\* the points of the tiers: score += 5, score += 3, score += 1
WeightHigh == 5
WeightMedium == 3
WeightLow == 1

\* the names the scorer treats as government sources, and their bonus
govt_sources == << "pib", "dd news", "air news", "mea", "isro", "csir" >>
GovtBonusPoints == 2

(***************************************************************************)
(* IndiaNewsDigest.calculate_upsc_score                                    *)
(***************************************************************************)
\* a defect: the keyword counted once per occurrence
KeywordHit_PerOccurrence(keyword, text_lower) ==
  CountFrom(text_lower, ToLower(keyword), 1)

\* `if keyword.lower() in text_lower`: 1 when the test passes, else 0
KeywordHit(keyword, text_lower) ==
  IF Contains(text_lower, ToLower(keyword)) THEN 1 ELSE 0

\* one `for keyword in self.upsc_keywords[tier]` loop, from index i on
RECURSIVE TierPoints(_, _, _, _)
TierPoints(keywords, i, text_lower, weight) ==
  IF i > Len(keywords) THEN 0
  ELSE weight * KeywordHit(keywords[i], text_lower)
         + TierPoints(keywords, i + 1, text_lower, weight)

\* a defect: the bonus added without the `if any(...)` test
GovtBonus_Unconditional(text_lower) == GovtBonusPoints

\* `if any(source in text_lower for source in govt_sources): score += 2`
GovtBonus(text_lower) ==
  IF \E k \in 1..Len(govt_sources) : Contains(text_lower, govt_sources[k])
  THEN GovtBonusPoints ELSE 0

calculate_upsc_score(text) ==
  LET text_lower == ToLower(text)
  IN  TierPoints(upsc_keywords.high, 1, text_lower, WeightHigh)
        + TierPoints(upsc_keywords.medium, 1, text_lower, WeightMedium)
        + TierPoints(upsc_keywords.low, 1, text_lower, WeightLow)
        + GovtBonus(text_lower)

(***************************************************************************)
(* IndiaNewsDigest: the source registry (self.news_sources), in registry   *)
(* order; the pictographs that open the labels are left out.               *)
(***************************************************************************)
news_sources ==
  << "PIB (Press Information Bureau)", "DD News", "AIR News",
     "PTI News", "ANI News",
     "The Hindu", "Times of India", "Hindustan Times", "Indian Express",
     "The Tribune",
     "Business Standard", "Economic Times", "Mint",
     "ISRO News", "CSIR News",
     "MEA India",
     "PRS India", "Insights IAS", "ClearIAS", "Drishti IAS", "Vision IAS" >>

\* TechNewsAutomation: self.news_sources
tech_news_sources ==
  << "TechCrunch", "Hacker News", "Ars Technica", "The Verge", "Wired",
     "GitHub Trends", "AI News", "TechRadar" >>

\* TechNewsAutomation: self.keywords and the urgency words
tech_keywords ==
  << "AI", "Artificial Intelligence", "Machine Learning",
     "Python", "JavaScript", "React", "Vue", "Node.js",
     "Startup", "Funding", "VC", "Investment",
     "Cybersecurity", "Data Science", "Cloud",
     "AWS", "Azure", "Google Cloud", "OpenAI",
     "Apple", "Microsoft", "Google", "Meta", "Tesla" >>
urgency_words == << "breaking", "urgent", "critical", "alert", "exclusive" >>

\* the registry entries a run of the model iterates over, in registry order
Monitored == << 1, 6, 11, 16, 21 >>
\* how many of them (IndiaNewsDigest), and how many of the first sources of
\* TechNewsAutomation, a run iterates over
NumSources == 4

\* `for entry in feed.entries[:8]`
PerSourceCap == 8
\* `return all_articles[:25]` and `return all_articles[:30]`
TopN == 25
TechTopN == 30
\* self.max_age_hours
max_age_hours == 24
\* timedelta(days=2), in hours
RetentionHours == 48
\* entry.title[:200], article['link'][:100], [:300], entry.title[:150]
HashTitleLen == 200
HashLinkLen == 100
SummaryLen == 300
TitleLen == 150
TechSummaryLen == 250

(***************************************************************************)
(* The state.                                                              *)
(***************************************************************************)
VARIABLES
  prog,           \* the script the process runs: "india" or "tech"
  now,            \* datetime.now(), in hours
  cacheFile,      \* seen_articles.json
  pc,             \* where the process is: "idle" (no process), "load",
                  \* "fetch", "done", "raised"
  seen_articles,  \* self.seen_articles
  src,            \* the position of fetch_all_news in the registry
  all_articles,   \* the local all_articles of fetch_all_news
  result,         \* the list fetch_all_news returned
  runs,           \* the number of processes started so far
  failed,         \* the sources whose fetch raised in this run
  attempts,       \* the fetch attempts made for the last source
  last_feed,      \* feed.entries[:8] of the last source (empty when it failed)
  loaded,         \* the seen set load_cache left in this run
  carried,        \* fingerprint -> how the fetched feeds of this run carried it
  candidates,     \* all_articles as it was before the sort
  recordedAt,     \* fingerprint -> the last time fetch_all_news added it to the seen set
  lastReturned,   \* fingerprint -> the time of the last finished run that returned it
  scored_text,    \* the argument of calculate_upsc_score
  scored_value,   \* its result (NoScore before the call)
  hash_in,        \* two articles handed to generate_article_hash
  hash_out,       \* their fingerprints, one pair for each time they were computed
  fresh_in,       \* a feed entry and the time at which its freshness is judged
  fresh_out,      \* "fresh" or "stale" ("none" before the call)
  env,            \* the environment: GITHUB_ACTIONS, the sender's credentials,
                  \* RECEIVER_EMAIL, ADDITIONAL_EMAILS
  html,           \* the documents create_html_content has rendered in this run
  send_calls,     \* the calls of send_email: message, transport attempts, result
  save_calls,     \* the calls of save_to_html_file: document, whether written
  log,            \* what run() and the delivery have logged
  peer,           \* a second IndiaNewsDigest process on the same cache file
  read_data,      \* what save_cache has read from the file before it writes
  sched_pc,       \* where scheduler.py is: "off" (not started), "main",
                  \* "call_job", "in_job", "job_returned", "run_pending",
                  \* "sleep", "stopped"
  due,            \* the jobs the scheduler still has to call in this round
  next_run,       \* job -> the hour of its next run, as `schedule` keeps it
  children,       \* the spawned digest processes that have not exited
  job_log         \* the jobs called so far and how each ended

vars ==
  << prog, now, cacheFile, pc, seen_articles, src, all_articles, result, runs,
     failed, attempts, last_feed, loaded, carried, candidates, recordedAt,
     lastReturned, scored_text, scored_value, hash_in, hash_out, fresh_in, fresh_out,
     env, html, send_calls, save_calls, log,
     peer, read_data, sched_pc, due, next_run, children, job_log >>
\* the variables of the scorer's specification, and all the others
scoreVars == << scored_text, scored_value >>
runVars ==
  << prog, now, cacheFile, pc, seen_articles, src, all_articles, result, runs,
     failed, attempts, last_feed, loaded, carried, candidates, recordedAt,
     lastReturned >>
\* the variables of the specifications of the other functions taken alone
hashVars == << hash_in, hash_out >>
freshVars == << fresh_in, fresh_out >>
deliveryVars == << env, html, send_calls, save_calls, log >>
\* the variables of the specifications of two processes and of the scheduler
concVars == << peer, read_data >>
schedVars == << sched_pc, due, next_run, children, job_log >>
systemVars == << concVars, schedVars >>
otherVars == << hashVars, freshVars, deliveryVars, systemVars >>

NoScore == 0 - 1

(***************************************************************************)
(* seen_articles.json.  The file is absent, is not JSON ("corrupt"), or    *)
(* holds a JSON object fingerprint -> timestamp string.  A timestamp       *)
(* string is [iso |-> whether datetime.fromisoformat accepts it,           *)
(*            t   |-> the time it denotes].                                *)
(***************************************************************************)
NoEntries == [h \in {} |-> [iso |-> TRUE, t |-> 0]]
AbsentFile == [kind |-> "absent", data |-> NoEntries]
CorruptFile == [kind |-> "corrupt", data |-> NoEntries]
JsonFile(d) == [kind |-> "json", data |-> d]
IsoFormat(t) == [iso |-> TRUE, t |-> t]
NotIsoFormat == [iso |-> FALSE, t |-> 0]

\* no snapshot of the cache file: save_cache has not read it, or could not
NoSnapshot == [ok |-> FALSE, data |-> NoEntries]

\* json.load succeeds and datetime.fromisoformat accepts every timestamp
Readable(file) ==
  /\ file.kind = "json"
  /\ \A h \in DOMAIN file.data : file.data[h].iso

\* a defect: `>=` for `>`
WithinRetention_Inclusive(timestamp, t) == timestamp.t >= t - RetentionHours

\* `datetime.fromisoformat(timestamp) > cutoff`, cutoff = now - timedelta(days=2)
WithinRetention(timestamp, t) == timestamp.t > t - RetentionHours

\* a defect: the entries read before the exception stay in the set
load_cache_KeepsPartial(file, t) ==
  IF file.kind # "json" THEN {}
  ELSE { h \in DOMAIN file.data :
           file.data[h].iso /\ WithinRetention(file.data[h], t) }

\* IndiaNewsDigest.load_cache: the value of self.seen_articles it leaves,
\* starting from the empty set of the constructor.  Any exception (invalid
\* JSON, an invalid timestamp) ends in `self.seen_articles = set()`.
load_cache(file, t) ==
  IF file.kind = "absent" THEN {}
  ELSE IF ~Readable(file) THEN {}
  ELSE { h \in DOMAIN file.data : WithinRetention(file.data[h], t) }

\* a defect: the run's fingerprints replace the file's entries
CacheData_NoMerge(old_data, seen, t) == [h \in seen |-> IsoFormat(t)]

\* save_cache: cache_data = the old entries within the retention window,
\* overwritten by every fingerprint of self.seen_articles at the current time
CacheData(old_data, seen, t) ==
  LET kept == { h \in DOMAIN old_data : WithinRetention(old_data[h], t) }
  IN  [h \in kept \cup seen |-> IF h \in seen THEN IsoFormat(t) ELSE old_data[h]]

\* IndiaNewsDigest.save_cache: the file it leaves.  The file is opened for
\* reading first, inside the try: when that or the parsing raises, the
\* `except: pass` leaves the file as it was.
save_cache(file, seen, t) ==
  IF ~Readable(file) THEN file
  ELSE JsonFile(CacheData(file.data, seen, t))

\* save_cache up to the end of its `with open(self.cache_file, 'r')`: the
\* entries read, or the note that the reading raised
save_cache_read(file) ==
  IF Readable(file) THEN [ok |-> TRUE, data |-> file.data] ELSE NoSnapshot

\* a defect of the model, not of the code: the file is read again at the
\* time of the write, as it would be under a lock held from the read on
save_cache_write_Atomic(file, snapshot, seen, t) == save_cache(file, seen, t)

\* save_cache from `for hash_val in self.seen_articles` on: the file it
\* leaves, built from what was read earlier; nothing is written when the
\* reading had raised
save_cache_write(file, snapshot, seen, t) ==
  IF snapshot.ok THEN JsonFile(CacheData(snapshot.data, seen, t)) ELSE file

(***************************************************************************)
(* Feed entries.  An entry is a function from the fields it carries to     *)
(* their values (feedparser's entry); a published or updated value is      *)
(* [fmt  |-> the index in date_formats of the first format that parses it, *)
(*           0 when none does,                                             *)
(*  wall |-> the wall-clock time it then denotes].                         *)
(***************************************************************************)
\* entry.get(field, default)
Get(entry, field, default) ==
  IF field \in DOMAIN entry THEN entry[field] ELSE default

\* the default 'Recent', which no date format parses
Recent == [fmt |-> 0, wall |-> 0]

(***************************************************************************)
(* What the feeds return.                                                  *)
(***************************************************************************)
\* the first date format, '%a, %d %b %Y %H:%M:%S %z', of a date `age` hours
\* before t
Dated(t, age) == [fmt |-> 1, wall |-> t - age]

BudgetEntry(t) ==
  [ title |-> "Budget passed", link |-> "https://x/a", published |-> Dated(t, 1) ]
BillEntry(t) ==
  [ title |-> "Parliament clears AI Bill", link |-> "https://x/b",
    summary |-> "Lok Sabha vote", updated |-> Dated(t, 2) ]
CricketEntry(t) ==
  [ title |-> "Cricket final tonight", link |-> "https://y/c",
    summary |-> "Breaking", published |-> Dated(t, 30) ]
RatesEntry ==
  [ title |-> "RBI holds rates", link |-> "https://z/d",
    description |-> "Repo rate unchanged" ]

\* the feeds a source may return at time t
SmallFeeds(t) ==
  { << >>,
    << BudgetEntry(t) >>,
    << CricketEntry(t), RatesEntry, BillEntry(t), RatesEntry >> }

\* full feeds: entry i of the feed of source k
Digits == << "0", "1", "2", "3", "4", "5", "6", "7", "8", "9" >>
BulkTitles ==
  << "Budget passed", "Parliament clears AI Bill", "Cricket final tonight",
     "RBI holds rates" >>
BulkEntry(k, i, t) ==
  [ title     |-> BulkTitles[((k + i) % Len(BulkTitles)) + 1],
    link      |-> "https://bulk/" \o Digits[k + 1] \o "/" \o Digits[i + 1],
    published |-> Dated(t, 1) ]
BulkFeed(k, n, t) == [i \in 1..n |-> BulkEntry(k, i, t)]
\* source k returns nothing, as many entries as are read, or one more
BulkFeeds(k, t) ==
  { BulkFeed(k, n, t) : n \in { 0, PerSourceCap, PerSourceCap + 1 } }

\* f"{entry.title} {entry.get('summary', '')}"
ContentOf(entry) == entry.title \o " " \o Get(entry, "summary", "")

\* The scorers are evaluated once on the texts the feeds above carry and
\* looked up afterwards; on any other text they are evaluated in place.
KnownContents ==
  { ContentOf(e) : e \in { BudgetEntry(0), BillEntry(0), CricketEntry(0), RatesEntry } }
    \cup { BulkTitles[k] \o " " : k \in 1..Len(BulkTitles) }
UpscScoreTable == [c \in KnownContents |-> calculate_upsc_score(c)]
UpscScore(content) ==
  IF content \in DOMAIN UpscScoreTable THEN UpscScoreTable[content]
  ELSE calculate_upsc_score(content)

\* no date format parses the value: every strptime raised (a value that is
\* not a string makes each of them raise TypeError, caught alike), and
\* published_date is still None
ParseFailed(published) == published.fmt = 0

\* a defect: what cannot be dated is taken to be stale
UnparsedVerdict_Stale == FALSE

\* `if not published_date: return True`
UnparsedVerdict == TRUE

\* IndiaNewsDigest.is_fresh_article at time t
is_fresh_article(published, t) ==
  IF ParseFailed(published) THEN UnparsedVerdict
  ELSE (t - published.wall) <= max_age_hours

\* a defect: the whole link is digested
generate_article_hash_WholeLink(article) ==
  article.title \o "_" \o article.link

\* IndiaNewsDigest.generate_article_hash; MD5 is taken to be collision free,
\* so the digest is represented by the text it is computed from
generate_article_hash(article) ==
  article.title \o "_" \o Prefix(article.link, HashLinkLen)

\* the markers of is_govt_source
govt_markers == << "pib", "dd", "air", "mea", "isro", "csir" >>
is_govt_source(source_name) ==
  \E k \in 1..Len(govt_markers) : Contains(ToLower(source_name), govt_markers[k])
IsGovtTable ==
  [k \in 1..Len(news_sources) |-> is_govt_source(news_sources[k])]
IsGovtSource(source_name) ==
  IF \E k \in 1..Len(news_sources) : news_sources[k] = source_name
  THEN IsGovtTable[CHOOSE k \in 1..Len(news_sources) : news_sources[k] = source_name]
  ELSE is_govt_source(source_name)

\* a defect: the fingerprint is not looked up before the article is appended
IsDuplicate_Never(article_hash, seen) == FALSE

\* `if article_hash in self.seen_articles`
IsDuplicate(article_hash, seen) == article_hash \in seen

\* a defect: the fingerprint is added to the seen set before the freshness
\* filter is asked, so that an entry rejected as stale is marked as seen
ProcessEntry_MarksBeforeFilter(entry, st, source_name, t) ==
  LET published == Get(entry, "published", Get(entry, "updated", Recent))
  IN
  IF "title" \notin DOMAIN entry \/ "link" \notin DOMAIN entry THEN st
  ELSE
    LET article_data ==
          [ title   |-> Prefix(entry.title, HashTitleLen),
            link    |-> entry.link,
            summary |-> Prefix(Get(entry, "summary",
                                   Get(entry, "description", "No summary")),
                               SummaryLen) ]
        article_hash == generate_article_hash(article_data)
        article ==
          [ source         |-> source_name,
            title          |-> Prefix(entry.title, TitleLen),
            link           |-> entry.link,
            published      |-> published,
            summary        |-> article_data.summary,
            upsc_score     |-> UpscScore(ContentOf(entry)),
            hash           |-> article_hash,
            is_govt_source |-> IsGovtSource(source_name) ]
    IN
    IF IsDuplicate(article_hash, st.seen) THEN st
    ELSE [ seen |-> st.seen \cup {article_hash},
           arts |-> IF is_fresh_article(published, t)
                    THEN Append(st.arts, article) ELSE st.arts ]

\* The body of `for entry in feed.entries[:8]` of IndiaNewsDigest, one
\* entry: st = [seen |-> self.seen_articles, arts |-> all_articles].  A
\* missing title or link raises inside the try, and the entry is skipped.
ProcessEntry(entry, st, source_name, t) ==
  LET published == Get(entry, "published", Get(entry, "updated", Recent))
  IN
  IF ~is_fresh_article(published, t) THEN st
  ELSE IF "title" \notin DOMAIN entry \/ "link" \notin DOMAIN entry THEN st
  ELSE
    LET article_data ==
          [ title   |-> Prefix(entry.title, HashTitleLen),
            link    |-> entry.link,
            summary |-> Prefix(Get(entry, "summary",
                                   Get(entry, "description", "No summary")),
                               SummaryLen) ]
        article_hash == generate_article_hash(article_data)
        content == ContentOf(entry)
        article ==
          [ source         |-> source_name,
            title          |-> Prefix(entry.title, TitleLen),
            link           |-> entry.link,
            published      |-> published,
            summary        |-> article_data.summary,
            upsc_score     |-> UpscScore(content),
            hash           |-> article_hash,
            is_govt_source |-> IsGovtSource(source_name) ]
    IN
    IF IsDuplicate(article_hash, st.seen) THEN st
    ELSE [ seen |-> st.seen \cup {article_hash},
           arts |-> Append(st.arts, article) ]

\* a defect: the entry that raises ends the loop over the entries
RECURSIVE ProcessEntries_StopsAtError(_, _, _, _, _)
ProcessEntries_StopsAtError(entries, i, st, source_name, t) ==
  IF i > Len(entries) THEN st
  ELSE IF /\ is_fresh_article(Get(entries[i], "published",
                                   Get(entries[i], "updated", Recent)), t)
          /\ ("title" \notin DOMAIN entries[i] \/ "link" \notin DOMAIN entries[i])
       THEN st
  ELSE ProcessEntries_StopsAtError(entries, i + 1,
                                   ProcessEntry(entries[i], st, source_name, t),
                                   source_name, t)

\* `for entry in feed.entries[:8]` of IndiaNewsDigest, from entry i on
RECURSIVE ProcessEntries(_, _, _, _, _)
ProcessEntries(entries, i, st, source_name, t) ==
  IF i > Len(entries) THEN st
  ELSE ProcessEntries(entries, i + 1,
                      ProcessEntry(entries[i], st, source_name, t),
                      source_name, t)

(***************************************************************************)
(* TechNewsAutomation.check_relevance and the loop body of its             *)
(* fetch_all_news.  There is no try around one entry: a missing title or   *)
(* link ends the loop over the source's entries.                           *)
(***************************************************************************)
RECURSIVE TechKeywordPoints(_, _)
TechKeywordPoints(i, text_lower) ==
  IF i > Len(tech_keywords) THEN 0
  ELSE (IF Contains(text_lower, ToLower(tech_keywords[i])) THEN 2 ELSE 0)
         + TechKeywordPoints(i + 1, text_lower)

check_relevance(t) ==
  LET text_lower == ToLower(t)
  IN  TechKeywordPoints(1, text_lower)
        + Cardinality({ k \in 1..Len(urgency_words) :
                          Contains(text_lower, urgency_words[k]) })

RelevanceTable == [c \in KnownContents |-> check_relevance(c)]
Relevance(t) ==
  IF t \in DOMAIN RelevanceTable THEN RelevanceTable[t] ELSE check_relevance(t)

RECURSIVE TechProcessEntries(_, _, _, _)
TechProcessEntries(entries, i, arts, source_name) ==
  IF i > Len(entries) THEN arts
  ELSE IF "title" \notin DOMAIN entries[i] \/ "link" \notin DOMAIN entries[i]
       THEN arts
  ELSE
    LET entry == entries[i]
        article ==
          [ source    |-> source_name,
            title     |-> Prefix(entry.title, TitleLen),
            link      |-> entry.link,
            published |-> Get(entry, "published", Recent),
            summary   |-> Prefix(Get(entry, "summary", "No summary available"),
                                 TechSummaryLen),
            relevance |-> Relevance(ContentOf(entry)) ]
    IN TechProcessEntries(entries, i + 1, Append(arts, article), source_name)

(***************************************************************************)
(* list.sort(key=..., reverse=True): a stable sort, descending by key.     *)
(* Keys are tuples, compared as Python compares tuples.                    *)
(***************************************************************************)
TupleLess(a, b) ==
  \E i \in 1..Len(a) : a[i] < b[i] /\ \A j \in 1..(i - 1) : a[j] = b[j]

\* a defect: an element is put before the elements of equal key
InsertPosition_Unstable(order, i, keys) ==
  Cardinality({ k \in 1..Len(order) : TupleLess(keys[i], keys[order[k]]) })

\* how many elements of the sorted prefix stay before element i: those whose
\* key is not less than its key
InsertPosition(order, i, keys) ==
  Cardinality({ k \in 1..Len(order) : ~TupleLess(keys[order[k]], keys[i]) })

RECURSIVE SortOrder(_, _, _)
SortOrder(keys, i, order) ==
  IF i > Len(keys) THEN order
  ELSE LET n == InsertPosition(order, i, keys)
       IN  SortOrder(keys, i + 1,
                     SubSeq(order, 1, n) \o << i >> \o SubSeq(order, n + 1, Len(order)))

SortDescending(list, keys) ==
  LET order == SortOrder(keys, 1, << >>)
  IN  [k \in 1..Len(list) |-> list[order[k]]]

\* key=lambda x: (x['upsc_score'], x['is_govt_source'])
IndiaSortKey(article) ==
  << article.upsc_score, IF article.is_govt_source THEN 1 ELSE 0 >>
\* key=lambda x: x['relevance']
TechSortKey(article) == << article.relevance >>

\* a defect: one element too many
TopSlice_OffByOne(list, n) == Prefix(list, n + 1)

\* all_articles[:n]
TopSlice(list, n) == Prefix(list, n)

(***************************************************************************)
(* Delivery: send_email and save_to_html_file.                             *)
(***************************************************************************)
\* str.split(','): the pieces of s from position i on, piece being the one
\* begun
RECURSIVE SplitFrom(_, _, _)
SplitFrom(s, i, piece) ==
  IF i > Len(s) THEN << piece >>
  ELSE IF SubSeq(s, i, i) = "," THEN << piece >> \o SplitFrom(s, i + 1, "")
  ELSE SplitFrom(s, i + 1, piece \o SubSeq(s, i, i))

\* str.strip(), of blanks
RECURSIVE Strip(_)
Strip(s) ==
  IF Len(s) > 0 /\ SubSeq(s, 1, 1) = " " THEN Strip(SubSeq(s, 2, Len(s)))
  ELSE IF Len(s) > 0 /\ SubSeq(s, Len(s), Len(s)) = " "
       THEN Strip(SubSeq(s, 1, Len(s) - 1))
  ELSE s

\* `[email.strip() for email in additional_emails_str.split(',')
\*   if email.strip()]`, the empty list for the empty string
additional_emails(additional_emails_str) ==
  IF additional_emails_str = "" THEN << >>
  ELSE LET pieces == SplitFrom(additional_emails_str, 1, "")
           stripped == [k \in 1..Len(pieces) |-> Strip(pieces[k])]
       IN  SelectSeq(stripped, LAMBDA e : e # "")

\* `list(set([receiver_email] + additional_emails))`: the distinct addresses
\* in the order the iteration of the set gives them, which depends on the
\* hashes of the strings and so on the process: any order
all_recipients(receiver_email, additional) ==
  LET distinct == { receiver_email } \cup { additional[k] : k \in 1..Len(additional) }
      n == Cardinality(distinct)
  IN  { order \in [1..n -> distinct] :
          \A i, j \in 1..n : i # j => order[i] # order[j] }

\* msg['To'] and msg['BCC'] of IndiaNewsDigest.send_email
Recipients(receiver_email, order) ==
  [ to |-> receiver_email,
    bcc |-> IF Len(order) > 1 THEN Tail(order) ELSE << >> ]

\* what an SMTP session may come to: the message is sent and the session
\* closed; an exception before send_message has sent it; an exception after
SmtpOutcomes == { "ok", "refused", "lost_after_send" }

\* a defect: the second transport is tried whatever the first one did
smtp_attempts_AlwaysBoth(ssl, tls) ==
  << [transport |-> "SMTP_SSL:465", outcome |-> ssl],
     [transport |-> "STARTTLS:587", outcome |-> tls] >>

\* the transports send_email tries: SMTP_SSL on port 465 and, in the handler
\* of its exception, SMTP with STARTTLS on port 587
smtp_attempts(ssl, tls) ==
  IF ssl = "ok"
  THEN << [transport |-> "SMTP_SSL:465", outcome |-> ssl] >>
  ELSE << [transport |-> "SMTP_SSL:465", outcome |-> ssl],
          [transport |-> "STARTTLS:587", outcome |-> tls] >>

NoMessage == [to |-> "", bcc |-> << >>, doc |-> << >>]

\* send_email(html_content) as a call record; `return True` after the try
\* of the transports, `return False` in the handler of the outer try
send_email(receiver_email, order, doc, ssl, tls) ==
  LET attempts_made == smtp_attempts(ssl, tls)
      rcpt == IF prog = "india" THEN Recipients(receiver_email, order)
              ELSE [to |-> receiver_email, bcc |-> << >>]
  IN  [ msg |-> [to |-> rcpt.to, bcc |-> rcpt.bcc, doc |-> doc],
        attempts |-> attempts_made,
        returned |-> attempts_made[Len(attempts_made)].outcome = "ok" ]

\* send_email when the credentials are missing: `return False` at once
send_email_no_credentials ==
  [ msg |-> NoMessage, attempts |-> << >>, returned |-> FALSE ]

(***************************************************************************)
(* The operations.                                                         *)
(***************************************************************************)
\* the hours from one scheduled run to the next: 08:00 to 18:00, 18:00 to
\* 08:00
TickSteps == { 10, 14 }

\* a fingerprint of an earlier run whose article no feed carries any more
OldHash == "Old story_https://x/old"
BudgetHash == generate_article_hash(BudgetEntry(0))

\* the cache files a first run may find
InitialFiles ==
  { AbsentFile,
    CorruptFile,
    JsonFile(NoEntries),
    JsonFile((BudgetHash :> IsoFormat(0 - 24)) @@ (OldHash :> IsoFormat(0 - 72))),
    JsonFile((OldHash :> NotIsoFormat)),
    JsonFile((BudgetHash :> IsoFormat(0 - 24)) @@ (OldHash :> NotIsoFormat)) }

\* the times in a readable file are the times its fingerprints were recorded
RecordedIn(file) ==
  IF Readable(file) THEN [h \in DOMAIN file.data |-> file.data[h].t]
  ELSE [h \in {} |-> 0]

NoCarried == [h \in {} |-> [n |-> 0, fresh |-> FALSE]]

\* how the entries read from a feed add to `carried`: a fingerprint is
\* counted (up to 2) for each entry that has a title and a link
RECURSIVE CarriedBy(_, _, _, _)
CarriedBy(entries, i, c, t) ==
  IF i > Len(entries) THEN c
  ELSE IF "title" \notin DOMAIN entries[i] \/ "link" \notin DOMAIN entries[i]
       THEN CarriedBy(entries, i + 1, c, t)
  ELSE
    LET e == entries[i]
        h == generate_article_hash([title |-> Prefix(e.title, HashTitleLen),
                                    link |-> e.link])
        fresh == is_fresh_article(Get(e, "published", Get(e, "updated", Recent)), t)
        old == IF h \in DOMAIN c THEN c[h] ELSE [n |-> 0, fresh |-> FALSE]
        new == [n |-> IF old.n >= 1 THEN 2 ELSE 1, fresh |-> old.fresh \/ fresh]
    IN CarriedBy(entries, i + 1, (h :> new) @@ c, t)

NoRun ==
  /\ pc = "idle"
  /\ seen_articles = {}
  /\ src = 0
  /\ all_articles = << >>
  /\ result = << >>
  /\ failed = {}
  /\ attempts = 0
  /\ last_feed = << >>
  /\ loaded = {}
  /\ carried = NoCarried
  /\ candidates = << >>

NoScoring == scored_text = "" /\ scored_value = NoScore

NoArticle == [title |-> "", link |-> ""]
NoHashing == hash_in = << NoArticle, NoArticle >> /\ hash_out = << >>
NoFreshness == fresh_in = [entry |-> << >>, t |-> 0] /\ fresh_out = "none"

\* a local run (GITHUB_ACTIONS unset) with no credentials in the environment
LocalEnv ==
  [ is_github_actions |-> FALSE, credentials |-> FALSE,
    receiver_email |-> "", additional_emails_str |-> "" ]

NoDelivery ==
  /\ html = << >>
  /\ send_calls = << >>
  /\ save_calls = << >>
  /\ log = << >>

\* no second process
NoPeer ==
  [ pc |-> "idle", seen |-> {}, loaded |-> {}, old_data |-> NoSnapshot,
    written |-> NoEntries, in_time |-> FALSE ]

\* scheduler.py is not running
NoSchedule ==
  /\ sched_pc = "off"
  /\ due = << >>
  /\ next_run = [j \in {} |-> 0]
  /\ children = 0
  /\ job_log = << >>

NoSystem == peer = NoPeer /\ read_data = NoSnapshot /\ NoSchedule

NoOther == NoHashing /\ NoFreshness /\ env = LocalEnv /\ NoDelivery /\ NoSystem

\* one process at a time, and the scripts it may be
InitRuns(progs, files) ==
  /\ prog \in progs
  /\ now = 0
  /\ cacheFile \in files
  /\ prog = "tech" => cacheFile = AbsentFile
  /\ NoRun
  /\ runs = 0
  /\ recordedAt = RecordedIn(cacheFile)
  /\ lastReturned = [h \in {} |-> 0]
  /\ NoScoring
  /\ NoOther

\* time passes while no process runs
Tick ==
  /\ pc = "idle"
  /\ \E d \in TickSteps :
       /\ now + d <= MaxTime
       /\ now' = now + d
  /\ UNCHANGED << prog, cacheFile, pc, seen_articles, src, all_articles, result,
                  runs, failed, attempts, last_feed, loaded, carried, candidates,
                  recordedAt, lastReturned, scored_text, scored_value,
                  otherVars >>

\* main(): the constructor, `self.seen_articles = set()` and load_cache()
\* (IndiaNewsDigest), then run() up to its call of fetch_all_news
Construct(limit) ==
  /\ pc = "idle"
  /\ runs < limit
  /\ runs' = runs + 1
  /\ seen_articles' = IF prog = "india" THEN load_cache(cacheFile, now) ELSE {}
  /\ loaded' = seen_articles'
  /\ pc' = "fetch"
  /\ src' = 1
  /\ all_articles' = << >>
  /\ result' = << >>
  /\ failed' = {}
  /\ attempts' = 0
  /\ last_feed' = << >>
  /\ carried' = NoCarried
  /\ candidates' = << >>
  /\ UNCHANGED << prog, now, cacheFile, recordedAt, lastReturned,
                  scored_text, scored_value,
                  otherVars >>

\* a defect: the exception of one source leaves fetch_all_news
SourceFailed_Propagates ==
  /\ pc' = "raised"
  /\ failed' = failed \cup { src }
  /\ UNCHANGED << src, seen_articles, all_articles, carried, recordedAt >>

\* `except Exception as e: logger.error(...)`: the loop goes on with the
\* next source
SourceFailed ==
  /\ failed' = failed \cup { src }
  /\ src' = src + 1
  /\ UNCHANGED << pc, seen_articles, all_articles, carried, recordedAt >>

\* a defect: the fetch is tried once more after the fallback
fetch_attempts_OnceMore(direct) == IF direct THEN 1 ELSE 3

\* the fetches of one source: requests.get and, when it raised,
\* feedparser.parse(feed_url)
fetch_attempts(direct) == IF direct THEN 1 ELSE 2

\* what fetching one source may come to: a feed, from requests.get
\* (direct) or from feedparser.parse(feed_url) after requests.get raised, or
\* an exception of that second fetch
FeedOutcomes(feeds) ==
  [ kind : { "feed" }, direct : BOOLEAN, feed : feeds ]
    \cup { [ kind |-> "raise", direct |-> FALSE, feed |-> << >> ] }

\* IndiaNewsDigest.fetch_all_news, one source: requests.get, and
\* feedparser.parse(feed_url) when that raised; then the loop over
\* feed.entries[:8]
FetchSource(outcomes) ==
  /\ prog = "india"
  /\ pc = "fetch"
  /\ src <= NumSources
  /\ \E o \in outcomes :
       /\ attempts' = fetch_attempts(o.direct)
       /\ last_feed' = IF o.kind = "feed" THEN Prefix(o.feed, PerSourceCap) ELSE << >>
       /\ IF o.kind = "feed"
          THEN LET entries == Prefix(o.feed, PerSourceCap)
                   st == ProcessEntries(entries, 1,
                                        [seen |-> seen_articles, arts |-> all_articles],
                                        news_sources[Monitored[src]], now)
                   new == st.seen \ seen_articles
               IN  /\ seen_articles' = st.seen
                   /\ all_articles' = st.arts
                   /\ recordedAt' = [h \in new |-> now] @@ recordedAt
                   /\ carried' = CarriedBy(entries, 1, carried, now)
                   /\ src' = src + 1
                   /\ UNCHANGED << pc, failed >>
          ELSE SourceFailed
  /\ UNCHANGED << prog, now, cacheFile, result, runs, loaded, candidates,
                  lastReturned, scored_text, scored_value,
                  otherVars >>

\* IndiaNewsDigest.fetch_all_news after the loop: sort, save_cache, return
FinishFetch ==
  /\ prog = "india"
  /\ pc = "fetch"
  /\ src > NumSources
  /\ LET sorted == SortDescending(all_articles,
                                  [k \in 1..Len(all_articles) |->
                                     IndiaSortKey(all_articles[k])])
     IN  /\ candidates' = all_articles
         /\ all_articles' = sorted
         /\ cacheFile' = save_cache(cacheFile, seen_articles, now)
         /\ result' = TopSlice(sorted, TopN)
  /\ pc' = "done"
  /\ UNCHANGED << prog, now, seen_articles, src, runs, failed, attempts, last_feed, loaded,
                  carried, recordedAt, lastReturned, scored_text, scored_value,
                  otherVars >>

\* TechNewsAutomation.fetch_all_news, one source
TechFetchSource(outcomes) ==
  /\ prog = "tech"
  /\ pc = "fetch"
  /\ src <= NumSources
  /\ attempts' = 1
  /\ \E o \in outcomes :
       /\ o.direct = (o.kind = "feed")
       /\ last_feed' = IF o.kind = "feed" THEN Prefix(o.feed, PerSourceCap) ELSE << >>
       /\ IF o.kind = "feed"
          THEN /\ all_articles' =
                    TechProcessEntries(Prefix(o.feed, PerSourceCap), 1,
                                       all_articles, tech_news_sources[src])
               /\ src' = src + 1
               /\ UNCHANGED << pc, failed, seen_articles, carried, recordedAt >>
          ELSE SourceFailed
  /\ UNCHANGED << prog, now, cacheFile, result, runs, loaded, candidates,
                  lastReturned, scored_text, scored_value,
                  otherVars >>

\* TechNewsAutomation.fetch_all_news after the loop: sort, return
TechFinishFetch ==
  /\ prog = "tech"
  /\ pc = "fetch"
  /\ src > NumSources
  /\ LET sorted == SortDescending(all_articles,
                                  [k \in 1..Len(all_articles) |->
                                     TechSortKey(all_articles[k])])
     IN  /\ candidates' = all_articles
         /\ all_articles' = sorted
         /\ result' = TopSlice(sorted, TechTopN)
  /\ pc' = "done"
  /\ UNCHANGED << prog, now, cacheFile, seen_articles, src, runs, failed, attempts, last_feed,
                  loaded, carried, recordedAt, lastReturned, scored_text, scored_value,
                  otherVars >>

\* the process ends; what it held in memory is gone
Exit ==
  /\ pc = "done"
  /\ pc' = "idle"
  /\ lastReturned' =
       IF prog = "india"
       THEN [h \in { result[k].hash : k \in 1..Len(result) } |-> now] @@ lastReturned
       ELSE lastReturned
  /\ seen_articles' = {}
  /\ src' = 0
  /\ all_articles' = << >>
  /\ result' = << >>
  /\ failed' = {}
  /\ attempts' = 0
  /\ last_feed' = << >>
  /\ loaded' = {}
  /\ carried' = NoCarried
  /\ candidates' = << >>
  /\ UNCHANGED << prog, now, cacheFile, runs, recordedAt,
                  scored_text, scored_value,
                  otherVars >>

(***************************************************************************)
(* Spec: one run of either script, every initial cache file, every         *)
(* outcome of every source.                                                *)
(***************************************************************************)
Init == InitRuns({ "india", "tech" }, InitialFiles)

Next ==
  \/ Construct(1)
  \/ FetchSource(FeedOutcomes(SmallFeeds(now)))
  \/ FinishFetch
  \/ TechFetchSource(FeedOutcomes(SmallFeeds(now)))
  \/ TechFinishFetch
  \/ Exit

Spec == Init /\ [][Next]_vars

(***************************************************************************)
(* SpecCache: IndiaNewsDigest run several times, time passing between the  *)
(* runs.  The first two sources return any of the feeds, the others none.  *)
(***************************************************************************)
CacheOutcomes(k, t) ==
  [ kind : { "feed" }, direct : { TRUE },
    feed : IF k <= 2 THEN SmallFeeds(t) ELSE { << >> } ]

InitCache == InitRuns({ "india" }, InitialFiles)

NextCache ==
  \/ Tick
  \/ Construct(MaxRuns)
  \/ FetchSource(CacheOutcomes(src, now))
  \/ FinishFetch
  \/ Exit

SpecCache == InitCache /\ [][NextCache]_vars

(***************************************************************************)
(* SpecTopN: one run of either script over full feeds, so that more        *)
(* articles are collected than are returned.                               *)
(***************************************************************************)
InitTopN == InitRuns({ "india", "tech" }, InitialFiles)

NextTopN ==
  \/ Construct(1)
  \/ FetchSource(FeedOutcomes(BulkFeeds(src, now)))
  \/ FinishFetch
  \/ TechFetchSource(FeedOutcomes(BulkFeeds(src, now)))
  \/ TechFinishFetch
  \/ Exit

SpecTopN == InitTopN /\ [][NextTopN]_vars

(***************************************************************************)
(* SpecScore: calculate_upsc_score applied to the texts put together from  *)
(* up to MaxFragments of the fragments below.                              *)
(***************************************************************************)
Fragments ==
  << "Bill ", "GDP ", "Healthcare ", "impact ", "PIB ", "STATE ", "cricket " >>

Texts ==
  LET upto[n \in 0..MaxFragments] ==
        IF n = 0 THEN { "" }
        ELSE upto[n - 1]
               \cup { t \o Fragments[k] : t \in upto[n - 1], k \in 1..Len(Fragments) }
  IN  upto[MaxFragments]

InitScore ==
  /\ prog = "india"
  /\ now = 0
  /\ cacheFile = AbsentFile
  /\ NoRun
  /\ runs = 0
  /\ recordedAt = RecordedIn(cacheFile)
  /\ lastReturned = [h \in {} |-> 0]
  /\ scored_text \in Texts
  /\ scored_value = NoScore
  /\ NoOther

Score ==
  /\ scored_value = NoScore
  /\ scored_value' = calculate_upsc_score(scored_text)
  /\ UNCHANGED << scored_text, runVars, otherVars >>

NextScore == Score

SpecScore == InitScore /\ [][NextScore]_vars

(***************************************************************************)
(* SpecHash: generate_article_hash applied to two articles, up to          *)
(* MaxHashCalls times (the same articles met again in a later run).        *)
(***************************************************************************)
\* a link of exactly 100 characters
Link100 ==
  "https://news.example.org/india/economy/2026/11/06/" \o
  "budget-passed-by-both-houses-after-long-debate-001"

HashLinks ==
  { "https://x/a", Link100, Link100 \o "?utm=feed", Link100 \o "?utm=mail",
    Prefix(Link100, 99), Prefix(Link100, 99) \o "2?utm=feed" }

HashArticles == [ title : { "Budget passed", "Budget" }, link : HashLinks ]

InitHash ==
  /\ prog = "india"
  /\ now = 0
  /\ cacheFile = AbsentFile
  /\ NoRun
  /\ runs = 0
  /\ recordedAt = RecordedIn(cacheFile)
  /\ lastReturned = [h \in {} |-> 0]
  /\ NoScoring
  /\ hash_in \in HashArticles \X HashArticles
  /\ hash_out = << >>
  /\ NoFreshness
  /\ env = LocalEnv
  /\ NoDelivery
  /\ NoSystem

GenerateHash ==
  /\ Len(hash_out) < MaxHashCalls
  /\ hash_out' = Append(hash_out, << generate_article_hash(hash_in[1]),
                                     generate_article_hash(hash_in[2]) >>)
  /\ UNCHANGED << hash_in, runVars, scoreVars, freshVars, deliveryVars, systemVars >>

NextHash == GenerateHash

SpecHash == InitHash /\ [][NextHash]_vars

(***************************************************************************)
(* SpecFresh: the freshness filter of fetch_all_news applied to one entry: *)
(* a date in any of the six formats, from MaxAge hours before the time of  *)
(* the call to MaxAge hours after it, under `published` or `updated`; a    *)
(* value no format parses; or neither field.                               *)
(***************************************************************************)
DateFormats == 1..6

FreshDates(t) ==
  [ fmt : DateFormats, wall : (t - MaxAge)..(t + MaxAge) ]
    \cup { Recent, [fmt |-> 0, wall |-> t - MaxAge] }

FreshEntries(t) ==
  { [title |-> "Budget passed", link |-> "https://x/a", published |-> d] :
      d \in FreshDates(t) }
    \cup { [title |-> "Budget passed", link |-> "https://x/a", updated |-> d] :
             d \in FreshDates(t) }
    \cup { [title |-> "Budget passed", link |-> "https://x/a"] }

InitFresh ==
  /\ prog = "india"
  /\ now = 0
  /\ cacheFile = AbsentFile
  /\ NoRun
  /\ runs = 0
  /\ recordedAt = RecordedIn(cacheFile)
  /\ lastReturned = [h \in {} |-> 0]
  /\ NoScoring
  /\ NoHashing
  /\ \E t \in { 0, MaxTime } : fresh_in \in [ entry : FreshEntries(t), t : { t } ]
  /\ fresh_out = "none"
  /\ env = LocalEnv
  /\ NoDelivery
  /\ NoSystem

\* `published = entry.get('published', entry.get('updated', 'Recent'))` and
\* `self.is_fresh_article(published)`
CheckFresh ==
  /\ fresh_out = "none"
  /\ LET published == Get(fresh_in.entry, "published",
                          Get(fresh_in.entry, "updated", Recent))
     IN  fresh_out' = IF is_fresh_article(published, fresh_in.t)
                      THEN "fresh" ELSE "stale"
  /\ UNCHANGED << fresh_in, runVars, scoreVars, hashVars, deliveryVars, systemVars >>

NextFresh == CheckFresh

SpecFresh == InitFresh /\ [][NextFresh]_vars

(***************************************************************************)
(* run(): what follows the return of fetch_all_news.  pc goes from "done"  *)
(* to "render", then to "send" and "save" in the order of the mode, then   *)
(* to "banner" and "returned"; or to "run_raised".                         *)
(***************************************************************************)
\* a defect: the warning is logged and run() goes on
AfterWarning_FallsThrough == "render"

\* `if not articles: logger.warning(...); return`
AfterWarning == "returned"

\* run() after `articles = self.fetch_all_news()`
CheckArticles ==
  /\ pc = "done"
  /\ IF result = << >>
     THEN /\ log' = Append(log, "warning: no articles")
          /\ pc' = AfterWarning
     ELSE /\ pc' = "render"
          /\ UNCHANGED log
  /\ UNCHANGED << prog, now, cacheFile, seen_articles, src, all_articles, result,
                  runs, failed, attempts, last_feed, loaded, carried, candidates, recordedAt,
                  lastReturned, scoreVars, hashVars, freshVars, systemVars,
                  env, html, send_calls, save_calls >>

\* a defect: the exception is logged and run() returns
RunRaised_Swallowed ==
  /\ log' = Append(log, "critical")
  /\ pc' = "returned"

\* `except Exception as e: logger.error(...); raise`
RunRaised ==
  /\ log' = Append(log, "critical")
  /\ pc' = "run_raised"

\* the statistics and create_html_content(articles); an exception there is
\* one that escapes the steps of run()
CreateHtml ==
  /\ pc = "render"
  /\ \E rendered \in BOOLEAN :
       IF rendered
       THEN /\ html' = Append(html, result)
            /\ pc' = IF env.is_github_actions THEN "send" ELSE "save"
            /\ UNCHANGED log
       ELSE /\ RunRaised
            /\ UNCHANGED html
  /\ UNCHANGED << prog, now, cacheFile, seen_articles, src, all_articles, result,
                  runs, failed, attempts, last_feed, loaded, carried, candidates, recordedAt,
                  lastReturned, scoreVars, hashVars, freshVars, systemVars,
                  env, send_calls, save_calls >>

\* a defect: after the failed email run() goes to its end
AfterFailedSend_GivesUp == "banner"

\* `else: logger.error("Email failed, saving locally...")` and
\* save_to_html_file
AfterFailedSend == "save"

\* send_email(html_content), called by run()
SendEmail ==
  /\ pc = "send"
  /\ \E call \in
         IF ~env.credentials THEN { send_email_no_credentials }
         ELSE { send_email(env.receiver_email, order, html[Len(html)], ssl, tls) :
                  order \in all_recipients(env.receiver_email,
                                           additional_emails(env.additional_emails_str)),
                  ssl \in SmtpOutcomes, tls \in SmtpOutcomes } :
       /\ send_calls' = Append(send_calls, call)
       /\ log' = IF call.returned THEN log
                 ELSE Append(log, IF env.credentials THEN "error: email failed"
                                  ELSE "error: credentials missing")
       /\ pc' = IF env.is_github_actions /\ ~call.returned THEN AfterFailedSend
                ELSE "banner"
  /\ UNCHANGED << prog, now, cacheFile, seen_articles, src, all_articles, result,
                  runs, failed, attempts, last_feed, loaded, carried, candidates, recordedAt,
                  lastReturned, scoreVars, hashVars, freshVars, systemVars,
                  env, html, save_calls >>

\* a defect: the email of a local run is tried only when the file was written
AfterSave_OnlyIfWritten(written) ==
  IF ~env.is_github_actions /\ env.credentials /\ written THEN "send"
  ELSE "banner"

\* what run() does after save_to_html_file: in a local run,
\* `if self.sender_email and self.sender_password:` send_email, whatever
\* filepath is; in a GitHub Actions run nothing more
AfterSave(written) ==
  IF ~env.is_github_actions /\ env.credentials THEN "send" ELSE "banner"

\* save_to_html_file(html_content), called by run(); in a local run the
\* email is tried afterwards when the credentials are there
SaveToHtmlFile ==
  /\ pc = "save"
  /\ \E written \in BOOLEAN :
       /\ save_calls' = Append(save_calls, [doc |-> html[Len(html)], written |-> written])
       /\ log' = IF written THEN log ELSE Append(log, "error: save failed")
       /\ pc' = AfterSave(written)
  /\ UNCHANGED << prog, now, cacheFile, seen_articles, src, all_articles, result,
                  runs, failed, attempts, last_feed, loaded, carried, candidates, recordedAt,
                  lastReturned, scoreVars, hashVars, freshVars, systemVars,
                  env, html, send_calls >>

\* the banner at the end of run(), and its return
RunCompleted ==
  /\ pc = "banner"
  /\ log' = Append(log, "completed")
  /\ pc' = "returned"
  /\ UNCHANGED << prog, now, cacheFile, seen_articles, src, all_articles, result,
                  runs, failed, attempts, last_feed, loaded, carried, candidates, recordedAt,
                  lastReturned, scoreVars, hashVars, freshVars, systemVars,
                  env, html, send_calls, save_calls >>

(***************************************************************************)
(* SpecRun: main() of either script in every environment: the first source *)
(* returns no entry, one or two, or fails; the other sources return none.  *)
(***************************************************************************)
AdditionalValues == { "", "b@x", "b@x, c@x", " b@x ,, a@x", "b@x,b@x" }

RunEnvs ==
  [ is_github_actions : BOOLEAN, credentials : BOOLEAN,
    receiver_email : { "a@x" }, additional_emails_str : AdditionalValues ]

RunOutcomes(k, t) ==
  IF k = 1
  THEN FeedOutcomes({ << >>, << BudgetEntry(t) >>, << BudgetEntry(t), BillEntry(t) >> })
  ELSE [ kind : { "feed" }, direct : { TRUE }, feed : { << >> } ]

InitRun ==
  /\ prog \in { "india", "tech" }
  /\ now = 0
  /\ cacheFile = AbsentFile
  /\ NoRun
  /\ runs = 0
  /\ recordedAt = RecordedIn(cacheFile)
  /\ lastReturned = [h \in {} |-> 0]
  /\ NoScoring
  /\ NoHashing
  /\ NoFreshness
  /\ env \in RunEnvs
  /\ prog = "tech" => env.additional_emails_str = ""
  /\ NoDelivery
  /\ NoSystem

NextRun ==
  \/ Construct(1)
  \/ FetchSource(RunOutcomes(src, now))
  \/ FinishFetch
  \/ TechFetchSource(RunOutcomes(src, now))
  \/ TechFinishFetch
  \/ CheckArticles
  \/ CreateHtml
  \/ SendEmail
  \/ SaveToHtmlFile
  \/ RunCompleted

SpecRun == InitRun /\ [][NextRun]_vars

(***************************************************************************)
(* SpecMalformed: one run of IndiaNewsDigest over feeds that hold entries  *)
(* without a title or without a link.                                      *)
(***************************************************************************)
NoTitleEntry(t) ==
  [ link |-> "https://y/n", summary |-> "Budget", published |-> Dated(t, 1) ]
NoLinkEntry(t) == [ title |-> "Policy note", published |-> Dated(t, 2) ]
StaleNoLinkEntry(t) == [ title |-> "Policy note", published |-> Dated(t, 30) ]

MalformedFeeds(t) ==
  { << >>,
    << NoTitleEntry(t) >>,
    << NoTitleEntry(t), BudgetEntry(t) >>,
    << BudgetEntry(t), NoLinkEntry(t), BillEntry(t) >>,
    << BillEntry(t), StaleNoLinkEntry(t), RatesEntry, NoTitleEntry(t) >> }

InitMalformed == InitRuns({ "india" }, InitialFiles)

NextMalformed ==
  \/ Construct(1)
  \/ FetchSource(FeedOutcomes(MalformedFeeds(now)))
  \/ FinishFetch
  \/ Exit

SpecMalformed == InitMalformed /\ [][NextMalformed]_vars

(***************************************************************************)
(* SpecTechMalformed: one run of TechNewsAutomation over the same feeds.   *)
(***************************************************************************)
InitTechMalformed == InitRuns({ "tech" }, { AbsentFile })

NextTechMalformed ==
  \/ Construct(1)
  \/ TechFetchSource(FeedOutcomes(MalformedFeeds(now)))
  \/ TechFinishFetch
  \/ Exit

SpecTechMalformed == InitTechMalformed /\ [][NextTechMalformed]_vars

(***************************************************************************)
(* SpecConcurrent: two processes of IndiaNewsDigest on one cache file.     *)
(* save_cache reads the file and writes it in two steps, and the steps of  *)
(* the two processes interleave.  The first process is the one of the      *)
(* other specifications; of the second one only the cache handling and    *)
(* the seen set are kept, in the record `peer`.                            *)
(***************************************************************************)
\* fetch_all_news after the loop, up to the reading in save_cache
SaveRead ==
  /\ prog = "india"
  /\ pc = "fetch"
  /\ src > NumSources
  /\ LET sorted == SortDescending(all_articles,
                                  [k \in 1..Len(all_articles) |->
                                     IndiaSortKey(all_articles[k])])
     IN  /\ candidates' = all_articles
         /\ all_articles' = sorted
  /\ read_data' = save_cache_read(cacheFile)
  /\ pc' = "saving"
  /\ UNCHANGED << prog, now, cacheFile, seen_articles, src, result, runs, failed,
                  attempts, last_feed, loaded, carried, recordedAt, lastReturned,
                  scoreVars, hashVars, freshVars, deliveryVars, peer, schedVars >>

\* the writing in save_cache, and the return of fetch_all_news
SaveWrite ==
  /\ prog = "india"
  /\ pc = "saving"
  /\ cacheFile' = save_cache_write(cacheFile, read_data, seen_articles, now)
  /\ result' = TopSlice(all_articles, TopN)
  /\ pc' = "done"
  /\ UNCHANGED << prog, now, seen_articles, src, all_articles, runs, failed,
                  attempts, last_feed, loaded, carried, candidates, recordedAt,
                  lastReturned, scoreVars, otherVars >>

\* what the feeds give the second process
PeerFeeds(t) == { << >>, << RatesEntry >>, << BudgetEntry(t), RatesEntry >> }

\* the second process is started: the constructor and load_cache
PeerConstruct ==
  /\ peer.pc = "idle"
  /\ LET seen == load_cache(cacheFile, now)
     IN  peer' = [peer EXCEPT !.pc = "fetch", !.seen = seen, !.loaded = seen]
  /\ UNCHANGED << runVars, scoreVars, hashVars, freshVars, deliveryVars,
                  read_data, schedVars >>

\* the loop of fetch_all_news in the second process
PeerFetch ==
  /\ peer.pc = "fetch"
  /\ \E feed \in PeerFeeds(now) :
       LET st == ProcessEntries(feed, 1, [seen |-> peer.seen, arts |-> << >>],
                                news_sources[Monitored[1]], now)
       IN  peer' = [peer EXCEPT !.pc = "save", !.seen = st.seen]
  /\ UNCHANGED << runVars, scoreVars, hashVars, freshVars, deliveryVars,
                  read_data, schedVars >>

\* the reading in save_cache of the second process
PeerSaveRead ==
  /\ peer.pc = "save"
  /\ peer' = [peer EXCEPT !.pc = "write", !.old_data = save_cache_read(cacheFile)]
  /\ UNCHANGED << runVars, scoreVars, hashVars, freshVars, deliveryVars,
                  read_data, schedVars >>

\* the writing in save_cache of the second process; `written` keeps what
\* it wrote and `in_time` whether the first process was then between its
\* load_cache and its save_cache
PeerSaveWrite ==
  /\ peer.pc = "write"
  /\ cacheFile' = save_cache_write(cacheFile, peer.old_data, peer.seen, now)
  /\ peer' = [peer EXCEPT !.pc = "done",
                          !.written = IF peer.old_data.ok THEN cacheFile'.data
                                      ELSE NoEntries,
                          !.in_time = (pc = "fetch")]
  /\ UNCHANGED << prog, now, pc, seen_articles, src, all_articles, result, runs,
                  failed, attempts, last_feed, loaded, carried, candidates,
                  recordedAt, lastReturned, scoreVars, hashVars, freshVars,
                  deliveryVars, read_data, schedVars >>

InitConcurrent == InitRuns({ "india" }, InitialFiles)

NextConcurrent ==
  \/ Construct(1)
  \/ FetchSource(RunOutcomes(src, now))
  \/ SaveRead
  \/ SaveWrite
  \/ PeerConstruct
  \/ PeerFetch
  \/ PeerSaveRead
  \/ PeerSaveWrite

SpecConcurrent == InitConcurrent /\ [][NextConcurrent]_vars

(***************************************************************************)
(* SpecScheduler: scheduler.py.  Time is `now`, in hours; the digest       *)
(* process that job() spawns is kept only as a process that runs for some  *)
(* hours and exits with a code.                                            *)
(***************************************************************************)
\* schedule.every().day
HoursPerDay == 24

\* the jobs registered with `schedule`, and the hour of the day of each
Jobs == { "08:00", "18:00" }
AtHour(j) == IF j = "08:00" THEN 8 ELSE 18

\* the next time after t at which the clock shows hour h, as `schedule`
\* computes next_run for every().day.at(): today if that is still ahead,
\* tomorrow otherwise
NextAt(h, t) ==
  LET midnight == t - (t % HoursPerDay)
  IN  IF t % HoursPerDay < h THEN midnight + h ELSE midnight + HoursPerDay + h

\* the hours at which the scheduler may be started
StartHours == { 7, 12 }

\* how long a digest process may run, and the codes it may exit with
JobHours == { 0, 1, 11 }
ExitCodes == { 0, 1 }

\* the runnable jobs of run_pending in the order of sorted(): by next_run
RECURSIVE SortedJobs(_, _)
SortedJobs(runnable, nxt) ==
  IF runnable = {} THEN << >>
  ELSE LET first == CHOOSE j \in runnable :
                      \A k \in runnable : nxt[j] <= nxt[k]
       IN  << first >> \o SortedJobs(runnable \ { first }, nxt)

InitScheduler ==
  /\ prog = "india"
  /\ now \in StartHours
  /\ cacheFile = AbsentFile
  /\ NoRun
  /\ runs = 0
  /\ recordedAt = RecordedIn(cacheFile)
  /\ lastReturned = [h \in {} |-> 0]
  /\ NoScoring
  /\ NoHashing
  /\ NoFreshness
  /\ env = LocalEnv
  /\ NoDelivery
  /\ peer = NoPeer
  /\ read_data = NoSnapshot
  /\ sched_pc = "main"
  /\ due = << >>
  /\ next_run = [j \in {} |-> 0]
  /\ children = 0
  /\ job_log = << >>

\* main() up to its call of job(): the two jobs are registered
SchedulerMain ==
  /\ sched_pc = "main"
  /\ next_run' = [j \in Jobs |-> NextAt(AtHour(j), now)]
  /\ due' = << "initial" >>
  /\ sched_pc' = "call_job"
  /\ UNCHANGED << runVars, scoreVars, hashVars, freshVars, deliveryVars, concVars,
                  children, job_log >>

\* the line of job_log for the job that is being called
JobLine(ended) ==
  [ job |-> IF due = << >> THEN "none" ELSE Head(due),
    slot |-> IF due # << >> /\ Head(due) \in DOMAIN next_run
             THEN next_run[Head(due)] ELSE now,
    ended |-> ended ]

\* a defect: the process is started and not waited for (Popen)
AfterSpawn_Detached == "job_returned"

\* subprocess.run returns only when the process has exited
AfterSpawn == "in_job"

\* a defect: job() has no handler, the exception leaves job() and main()
AfterSpawnRaised_Propagates == "stopped"

\* `except Exception as e: print(...)`: job() returns normally
AfterSpawnRaised == "job_returned"

\* job() up to subprocess.run: the process is started, or starting it raises
JobSpawn ==
  /\ sched_pc = "call_job"
  /\ \E started \in BOOLEAN :
       IF started
       THEN /\ children' = children + 1
            /\ sched_pc' = AfterSpawn
            /\ UNCHANGED job_log
       ELSE /\ job_log' = Append(job_log, JobLine("spawn raised"))
            /\ sched_pc' = AfterSpawnRaised
            /\ UNCHANGED children
  /\ UNCHANGED << runVars, scoreVars, hashVars, freshVars, deliveryVars, concVars,
                  due, next_run >>

\* the digest process exits, some hours later, with some code;
\* subprocess.run (no check=True) returns whatever the code is
ChildExit ==
  /\ children > 0
  /\ \E d \in JobHours, code \in ExitCodes :
       /\ now + d <= MaxTime
       /\ now' = now + d
       /\ job_log' = Append(job_log, JobLine(IF code = 0 THEN "exit 0"
                                             ELSE "exit error"))
  /\ children' = children - 1
  /\ sched_pc' = IF sched_pc = "in_job" THEN "job_returned" ELSE sched_pc
  /\ UNCHANGED << prog, cacheFile, pc, seen_articles, src, all_articles, result,
                  runs, failed, attempts, last_feed, loaded, carried, candidates,
                  recordedAt, lastReturned, scoreVars, hashVars, freshVars,
                  deliveryVars, concVars, due, next_run >>

\* job() has returned: `schedule` sets the next run of a scheduled job, and
\* run_pending goes on with the next runnable job
JobReturn ==
  /\ sched_pc = "job_returned"
  /\ LET j == Head(due)
     IN  /\ next_run' = IF j \in DOMAIN next_run
                        THEN [next_run EXCEPT ![j] = NextAt(AtHour(j), now)]
                        ELSE next_run
         /\ due' = Tail(due)
         /\ sched_pc' = IF Tail(due) # << >> THEN "call_job"
                        ELSE IF j = "initial" THEN "run_pending"
                        ELSE "sleep"
  /\ UNCHANGED << runVars, scoreVars, hashVars, freshVars, deliveryVars, concVars,
                  children, job_log >>

\* schedule.run_pending(): the jobs whose next_run has come
RunPending ==
  /\ sched_pc = "run_pending"
  /\ LET runnable == { j \in DOMAIN next_run : next_run[j] <= now }
     IN  /\ due' = SortedJobs(runnable, next_run)
         /\ sched_pc' = IF runnable = {} THEN "sleep" ELSE "call_job"
  /\ UNCHANGED << runVars, scoreVars, hashVars, freshVars, deliveryVars, concVars,
                  next_run, children, job_log >>

\* time.sleep(60): a minute, which may end in the next hour
Sleep ==
  /\ sched_pc = "sleep"
  /\ \E d \in { 0, 1 } :
       /\ now + d <= MaxTime
       /\ now' = now + d
  /\ sched_pc' = "run_pending"
  /\ UNCHANGED << prog, cacheFile, pc, seen_articles, src, all_articles, result,
                  runs, failed, attempts, last_feed, loaded, carried, candidates,
                  recordedAt, lastReturned, scoreVars, hashVars, freshVars,
                  deliveryVars, concVars, due, next_run, children, job_log >>

NextScheduler ==
  \/ SchedulerMain
  \/ JobSpawn
  \/ ChildExit
  \/ JobReturn
  \/ RunPending
  \/ Sleep

SpecScheduler == InitScheduler /\ [][NextScheduler]_vars

\* the scheduler and the process it waits for keep running: the interpreter
\* goes on with the next statement, and the digest process ends
SpecSchedulerFair == SpecScheduler /\ WF_vars(NextScheduler)

(***************************************************************************)
(* The claims.                                                             *)
(***************************************************************************)
\* how many articles of a list have fingerprint h
CountHash(list, h) == Cardinality({ k \in 1..Len(list) : list[k].hash = h })

\* fetch_all_news of IndiaNewsDigest has returned
Returned == prog = "india" /\ pc = "done"

\* the position in the sorted all_articles of the article of fingerprint h
RankOf(h) == CHOOSE k \in 1..Len(all_articles) : all_articles[k].hash = h

\* C1, as stated: whenever the fetched feeds carried a fingerprint twice
\* (two sources, or two entries of one source), exactly one article of that
\* fingerprint is in the list fetch_all_news returns.
C1_ExactlyOneOfEachRepeated ==
  Returned =>
    \A h \in DOMAIN carried : carried[h].n >= 2 => CountHash(result, h) = 1

\* C1, amended: the returned list never holds two articles of one
\* fingerprint.  A fingerprint the fetched feeds carried has exactly one
\* article in the returned list when one of its entries was fresh, it was
\* not loaded from the cache and its article ranks among the first 25, and
\* none otherwise.
C1_AtMostOnePerFingerprint ==
  Returned =>
    /\ \A i, j \in 1..Len(result) : i # j => result[i].hash # result[j].hash
    /\ \A h \in DOMAIN carried :
         IF carried[h].fresh /\ h \notin loaded
         THEN /\ CountHash(all_articles, h) = 1
              /\ CountHash(result, h) = IF RankOf(h) <= TopN THEN 1 ELSE 0
         ELSE CountHash(result, h) = 0

\* two sources carried the same entry and one article of it is returned
C1_Witness ==
  /\ Returned
  /\ \E h \in DOMAIN carried :
       /\ carried[h].n >= 2
       /\ CountHash(result, h) = 1
       /\ \E k \in 1..Len(result) :
            result[k].hash = h /\ result[k].source = news_sources[Monitored[1]]

\* C2: an article IndiaNewsDigest returned is not returned again by a run
\* that starts less than 2 days after the run that returned it, whatever
\* the cache file was before the first run.
C2_NotReturnedAgainWithinTwoDays ==
  Returned =>
    \A k \in 1..Len(result) :
      result[k].hash \in DOMAIN lastReturned =>
        now - lastReturned[result[k].hash] >= RetentionHours

\* C3: once fetch_all_news has completed, every fingerprint of the seen set
\* of the run is in the cache file, whatever the file was before the run.
C3_CacheFileHoldsSeen ==
  Returned =>
    \A h \in seen_articles :
      cacheFile.kind = "json" /\ h \in DOMAIN cacheFile.data

\* C4: no fingerprint is loaded from the cache, and none is in the file a
\* run has written, later than 2 days after fetch_all_news last recorded it.
C4_NoEntryOutlivesRetention ==
  /\ (prog = "india" /\ pc \in { "fetch", "done" }) =>
       \A h \in loaded : now - recordedAt[h] <= RetentionHours
  /\ (Returned /\ Readable(cacheFile)) =>
       \A h \in DOMAIN cacheFile.data :
         h \in DOMAIN recordedAt => now - recordedAt[h] <= RetentionHours

\* C5: when load_cache has read a well-formed cache file, the seen set is
\* exactly the set of the fingerprints of the file stamped strictly later
\* than now minus 2 days.
C5_LoadKeepsExactlyTheRecent ==
  (prog = "india" /\ pc = "fetch" /\ src = 1 /\ Readable(cacheFile)) =>
    seen_articles =
      { h \in DOMAIN cacheFile.data : cacheFile.data[h].t > now - RetentionHours }

\* a load that keeps a one-day-old entry and drops a three-day-old one
C5_Witness ==
  /\ prog = "india" /\ pc = "fetch" /\ src = 1 /\ Readable(cacheFile)
  /\ \E h \in seen_articles : cacheFile.data[h].t = now - 24
  /\ \E h \in DOMAIN cacheFile.data \ seen_articles :
       cacheFile.data[h].t = now - 72

\* C6: an exception of one source never leaves fetch_all_news (either
\* script); the step of the failing source changes the collected articles
\* and the seen set as an empty feed does, and the loop goes on with the next
\* source; every fresh entry of the other sources whose fingerprint was not
\* loaded from the cache is among the candidates of the returned list.
C6_FailedSourceIsSkipped ==
  /\ [](pc # "raised")
  /\ [](Returned =>
          \A h \in DOMAIN carried :
            (carried[h].fresh /\ h \notin loaded) => CountHash(candidates, h) = 1)
  /\ [][(pc = "fetch" /\ src \in failed' /\ src \notin failed) =>
          /\ pc' = "fetch"
          /\ src' = src + 1
          /\ all_articles' = all_articles
          /\ seen_articles' = seen_articles]_vars

\* a source failed and an article of a later source is returned
C6_Witness ==
  /\ Returned
  /\ \E f \in failed, k \in 1..Len(result), j \in 1..NumSources :
       f < j /\ result[k].source = news_sources[Monitored[j]]

\* the sort key of the script that runs
SortKeyOf(article) ==
  IF prog = "india" THEN IndiaSortKey(article) ELSE TechSortKey(article)

\* the number of articles the script that runs returns at most
TopNOf == IF prog = "india" THEN TopN ELSE TechTopN

\* C7: fetch_all_news returns at most 25 articles (30 for
\* TechNewsAutomation): the first 25 (30) of the candidates sorted by
\* descending key, all of them when there are fewer; no candidate left out
\* has a key greater than the key of a returned one.
C7_TopN ==
  pc = "done" =>
    /\ Len(result) <= TopNOf
    /\ Len(result) = IF Len(candidates) < TopNOf THEN Len(candidates) ELSE TopNOf
    /\ Len(all_articles) = Len(candidates)
    /\ \A a \in { candidates[k] : k \in 1..Len(candidates) } :
         Cardinality({ k \in 1..Len(candidates) : candidates[k] = a })
           = Cardinality({ k \in 1..Len(all_articles) : all_articles[k] = a })
    /\ \A i, j \in 1..Len(all_articles) :
         i < j => ~TupleLess(SortKeyOf(all_articles[i]), SortKeyOf(all_articles[j]))
    /\ \A k \in 1..Len(result) : result[k] = all_articles[k]
    /\ \A k \in 1..Len(result), i \in (Len(result) + 1)..Len(all_articles) :
         ~TupleLess(SortKeyOf(result[k]), SortKeyOf(all_articles[i]))

\* IndiaNewsDigest collected more than 25 articles and returns 25
C7_Witness ==
  /\ Returned
  /\ Len(candidates) > TopN
  /\ Len(result) = TopN

\* the place of an article in the order in which the loops over the sources
\* and over their entries met the articles
Encountered(article) ==
  CHOOSE k \in 1..Len(candidates) : candidates[k].hash = article.hash

\* C8: of two articles of the list IndiaNewsDigest returns, the earlier one
\* has the greater upsc_score; or the same score and is of a government
\* source while the later one is not; or the same score and the same
\* is_govt_source, and was met earlier in the iteration over the sources and
\* their entries.
C8_SortedStable ==
  Returned =>
    \A i, j \in 1..Len(result) :
      i < j =>
        LET a == result[i]
            b == result[j]
        IN  \/ a.upsc_score > b.upsc_score
            \/ /\ a.upsc_score = b.upsc_score
               /\ a.is_govt_source /\ ~b.is_govt_source
            \/ /\ a.upsc_score = b.upsc_score
               /\ a.is_govt_source = b.is_govt_source
               /\ Encountered(a) < Encountered(b)

\* the sort moved an article, and two returned articles have the same key
C8_Witness ==
  /\ Returned
  /\ result # candidates
  /\ \E i, j \in 1..Len(result) :
       i < j /\ IndiaSortKey(result[i]) = IndiaSortKey(result[j])

\* the keywords of a tier that a text holds, whatever the case
Present(keywords, t) ==
  { k \in 1..Len(keywords) : Contains(ToLower(t), ToLower(keywords[k])) }

NoTierPhrase(t) ==
  /\ Present(upsc_keywords.high, t) = {}
  /\ Present(upsc_keywords.medium, t) = {}
  /\ Present(upsc_keywords.low, t) = {}

\* the text names one of the government sources of calculate_upsc_score
NamesGovtSource(t) ==
  \E k \in 1..Len(govt_sources) : Contains(ToLower(t), govt_sources[k])

\* C9, as stated: a text that holds no phrase of the three tiers scores 0.
C9_ZeroWithoutTierPhrase ==
  (scored_value # NoScore /\ NoTierPhrase(scored_text)) => scored_value = 0

\* C9, amended: a text that holds no phrase of the three tiers scores 0 when
\* it names none of the government sources, and 2, the bonus, when it names
\* one; the empty text scores 0.
C9_ZeroWithoutTierPhraseOrGovtName ==
  (scored_value # NoScore /\ NoTierPhrase(scored_text)) =>
    /\ scored_value = IF NamesGovtSource(scored_text) THEN GovtBonusPoints ELSE 0
    /\ scored_text = "" => scored_value = 0

\* a text that is not empty, holds no phrase and no government name: 0
C9_Witness ==
  /\ scored_text # ""
  /\ NoTierPhrase(scored_text)
  /\ ~NamesGovtSource(scored_text)
  /\ scored_value = 0

\* C10: the score is 5 for each high phrase the text holds, 3 for each
\* medium phrase and 1 for each low phrase, however often the phrase occurs,
\* plus the bonus of 2 when the text names a government source; it is never
\* negative, and a text with one high and one medium phrase and no
\* government name scores 8.
C10_PresenceNotOccurrences ==
  scored_value # NoScore =>
    LET high == Cardinality(Present(upsc_keywords.high, scored_text))
        medium == Cardinality(Present(upsc_keywords.medium, scored_text))
        low == Cardinality(Present(upsc_keywords.low, scored_text))
        bonus == IF NamesGovtSource(scored_text) THEN GovtBonusPoints ELSE 0
    IN  /\ scored_value = WeightHigh * high + WeightMedium * medium
                            + WeightLow * low + bonus
        /\ scored_value >= 0
        /\ (high = 1 /\ medium = 1 /\ low = 0 /\ bonus = 0) => scored_value = 8

\* a high phrase twice and a medium phrase once: 5 + 3
C10_Witness ==
  /\ scored_text = "Bill Bill GDP "
  /\ scored_value = 8
  /\ CountFrom("bill bill gdp ", "bill", 1) = 2

JudgedDate ==
  Get(fresh_in.entry, "published", Get(fresh_in.entry, "updated", Recent))

Elapsed == fresh_in.t - JudgedDate.wall

\* C12: a date that parses is fresh exactly when the time elapsed since it
\* is not negative and at most 24 hours.
C12_FreshIffWithinWindow ==
  (fresh_out # "none" /\ JudgedDate.fmt \in DateFormats) =>
    (fresh_out = "fresh" <=> (0 <= Elapsed /\ Elapsed <= max_age_hours))

\* C13: the freshness filter never raises, and an entry whose date no format
\* parses, or that has neither `published` nor `updated`, is judged fresh.
C13_UnparsedIsFresh ==
  fresh_out # "none" =>
    /\ fresh_out \in { "fresh", "stale" }
    /\ JudgedDate.fmt \notin DateFormats => fresh_out = "fresh"

\* an entry with neither field has been judged fresh
C13_Witness ==
  /\ "published" \notin DOMAIN fresh_in.entry
  /\ "updated" \notin DOMAIN fresh_in.entry
  /\ fresh_out = "fresh"

Logged(line) == \E k \in 1..Len(log) : log[k] = line

\* run() is past its call of fetch_all_news
AfterFetch == pc \notin { "idle", "fetch" }

\* C14: when fetch_all_news has returned the empty list, run() logs the
\* warning and returns: it renders nothing, calls neither send_email nor
\* save_to_html_file, and does not raise.
C14_EmptyResultEndsRun ==
  /\ []((AfterFetch /\ result = << >>) =>
          /\ pc \in { "done", "returned" }
          /\ html = << >> /\ send_calls = << >> /\ save_calls = << >>
          /\ pc = "returned" => log = << "warning: no articles" >>)
  /\ [][(pc = "done" /\ result = << >>) =>
          (pc' = "returned" /\ log' = Append(log, "warning: no articles"))]_vars

\* run() has returned after an empty fetch
C14_Witness ==
  /\ pc = "returned"
  /\ result = << >>
  /\ log = << "warning: no articles" >>

\* the digest has been sent by a send_email that returned True
SentOk(doc) ==
  \E k \in 1..Len(send_calls) : send_calls[k].returned /\ send_calls[k].msg.doc = doc

SaveCalled(doc) == \E k \in 1..Len(save_calls) : save_calls[k].doc = doc

Written(doc) ==
  \E k \in 1..Len(save_calls) : save_calls[k].doc = doc /\ save_calls[k].written

\* in a run on GitHub Actions a send_email that returned False is followed
\* by a call of save_to_html_file with the same document
FailedEmailThenSave ==
  env.is_github_actions =>
    \A k \in 1..Len(send_calls) : ~send_calls[k].returned => SaveCalled(html[1])

\* C15, as stated: when run() has returned normally with articles, the
\* digest has been sent by email or written to a file, and on GitHub Actions
\* a failed email is followed by a call of save_to_html_file.
C15_SentOrWritten ==
  (pc = "returned" /\ result # << >>) =>
    /\ SentOk(html[1]) \/ Written(html[1])
    /\ FailedEmailThenSave

\* C15, amended: when run() has returned normally with articles, the digest
\* has been sent by email, or save_to_html_file has been called with it and
\* has written it or logged that it could not; on GitHub Actions a failed
\* email is followed by a call of save_to_html_file with the same document,
\* and a local run always calls save_to_html_file.
C15_SentOrSaveAttempted ==
  (pc = "returned" /\ result # << >>) =>
    /\ Len(html) = 1 /\ html[1] = result
    /\ SentOk(html[1]) \/ Written(html[1])
         \/ (SaveCalled(html[1]) /\ Logged("error: save failed"))
    /\ FailedEmailThenSave
    /\ ~env.is_github_actions => SaveCalled(html[1])

\* on GitHub Actions both transports failed and the digest was written
C15_Witness ==
  /\ pc = "returned"
  /\ env.is_github_actions
  /\ Len(send_calls) = 1 /\ Len(send_calls[1].attempts) = 2 /\ ~send_calls[1].returned
  /\ Written(html[1])

\* C16: a call of send_email tries SMTP_SSL on port 465 first and STARTTLS
\* on port 587 exactly when that failed, once: at most two attempts; it
\* returns True exactly when one of them went through, and never raises.
C16_OneRetry ==
  /\ pc = "run_raised" => send_calls = << >>
  /\ \A k \in 1..Len(send_calls) :
       LET call == send_calls[k]
           n == Len(call.attempts)
       IN  /\ n <= 2
           /\ n >= 1 => call.attempts[1].transport = "SMTP_SSL:465"
           /\ n = 2 => call.attempts[2].transport = "STARTTLS:587"
           /\ n = 2 <=> (n >= 1 /\ call.attempts[1].outcome # "ok")
           /\ call.returned <=> \E i \in 1..n : call.attempts[i].outcome = "ok"

\* the first transport failed, the second one went through
C16_Witness ==
  \E k \in 1..Len(send_calls) :
    /\ Len(send_calls[k].attempts) = 2
    /\ send_calls[k].attempts[2].outcome = "ok"
    /\ send_calls[k].returned

\* C17: a message IndiaNewsDigest.send_email has composed goes To
\* RECEIVER_EMAIL, and its BCC list holds, each once, the addresses of
\* ADDITIONAL_EMAILS that are not empty and not RECEIVER_EMAIL.
C17_BccIsTheAdditionalAddresses ==
  prog = "india" =>
    \A k \in 1..Len(send_calls) :
      send_calls[k].attempts # << >> =>
        LET m == send_calls[k].msg
            additional == additional_emails(env.additional_emails_str)
        IN  /\ m.to = env.receiver_email
            /\ { m.bcc[i] : i \in 1..Len(m.bcc) }
                 = { additional[i] : i \in 1..Len(additional) } \ { env.receiver_email }
            /\ \A i, j \in 1..Len(m.bcc) : i # j => m.bcc[i] # m.bcc[j]

\* C18: an exception that escapes the steps of run() is logged and raised
\* again: once it is logged run() has raised, and the banner of completion
\* is not logged.
C18_LoggedAndRaisedAgain ==
  /\ Logged("critical") => (pc = "run_raised" /\ ~Logged("completed"))
  /\ pc = "run_raised" => log[Len(log)] = "critical"

\* create_html_content raised and run() raised in turn
C18_Witness ==
  /\ pc = "run_raised"
  /\ result # << >>
  /\ html = << >>
  /\ Logged("critical")

\* C19, as stated: IndiaNewsDigest.fetch_all_news fetches a source once at
\* most, also when the fetch fails.
C19_NoSecondFetch ==
  (prog = "india" /\ pc \in { "fetch", "done" }) => attempts <= 1

\* C19, amended: a source is fetched once by requests.get and, when that
\* raised, once more by feedparser.parse(feed_url): twice at most; it is
\* skipped as failed only after the second fetch has raised too, and the
\* loop never comes back to a source.
C19_OneFallbackFetch ==
  /\ []((prog = "india" /\ pc \in { "fetch", "done" }) =>
          /\ attempts <= 2
          /\ src > 1 => attempts >= 1
          /\ (src - 1) \in failed => attempts = 2
          /\ \A k \in failed : k < src)
  /\ [][(prog = "india" /\ pc = "fetch" /\ pc' = "fetch") => src' = src + 1]_vars

\* requests.get raised and feedparser.parse(feed_url) returned the feed
C19_Witness ==
  /\ prog = "india" /\ pc = "fetch" /\ src > 1
  /\ attempts = 2
  /\ (src - 1) \notin failed
  /\ \E k \in 1..Len(all_articles) :
       all_articles[k].source = news_sources[Monitored[src - 1]]

WellFormed(entry) == "title" \in DOMAIN entry /\ "link" \in DOMAIN entry

\* C20: the loop over the entries of a source leaves the collected articles
\* and the seen set as it would with the entries that have no title or no
\* link taken out of the feed; every other fresh entry whose fingerprint was
\* not loaded from the cache is among the candidates of the returned list.
C20_OnlyTheMalformedEntryIsSkipped ==
  /\ [][(prog = "india" /\ pc = "fetch" /\ src' = src + 1) =>
          LET st == ProcessEntries(SelectSeq(last_feed', WellFormed), 1,
                                   [seen |-> seen_articles, arts |-> all_articles],
                                   news_sources[Monitored[src]], now)
          IN  all_articles' = st.arts /\ seen_articles' = st.seen]_vars
  /\ [](Returned =>
          \A h \in DOMAIN carried :
            (carried[h].fresh /\ h \notin loaded) => CountHash(candidates, h) = 1)

\* an entry without a link between two entries whose articles are collected
C20_Witness ==
  /\ prog = "india" /\ pc = "fetch" /\ src > 1
  /\ \E i, k, j \in 1..Len(last_feed) :
       /\ i < k /\ k < j
       /\ ~WellFormed(last_feed[k])
       /\ WellFormed(last_feed[i]) /\ WellFormed(last_feed[j])
       /\ \E a, b \in 1..Len(all_articles) :
            /\ a < b
            /\ all_articles[a].link = last_feed[i].link
            /\ all_articles[b].link = last_feed[j].link
            /\ all_articles[a].source = news_sources[Monitored[src - 1]]
            /\ all_articles[b].source = news_sources[Monitored[src - 1]]

\* C21: in TechNewsAutomation.fetch_all_news, once a source has been gone
\* through, every entry among its first 8 that has a title and a link has an
\* article of that source in the collected list, whatever entries without a
\* title or without a link stood before it in the feed.
C21_LaterEntriesStillCollected ==
  (prog = "tech" /\ pc = "fetch" /\ src > 1) =>
    \A j \in 1..Len(last_feed) :
      WellFormed(last_feed[j]) =>
        \E a \in 1..Len(all_articles) :
          /\ all_articles[a].link = last_feed[j].link
          /\ all_articles[a].source = tech_news_sources[src - 1]

\* C22: while the cache file cannot be read (it is missing, is not JSON, or
\* holds a timestamp that is not an ISO date), a run of IndiaNewsDigest has
\* loaded no fingerprint, not even those read before the failure; it starts
\* its first source with an empty seen set, and it goes on to return with
\* every fresh article its feeds carried among the candidates.
C22_UnreadableCacheStartsEmpty ==
  (prog = "india" /\ pc \in { "fetch", "done" } /\ ~Readable(cacheFile)) =>
    /\ loaded = {}
    /\ (pc = "fetch" /\ src = 1) => seen_articles = {}
    /\ pc = "done" =>
         \A h \in DOMAIN carried :
           carried[h].fresh => CountHash(candidates, h) = 1

\* the file holds a recent valid entry for the Budget article next to an
\* invalid timestamp, and the run returns the Budget article all the same
C22_Witness ==
  /\ Returned
  /\ cacheFile.kind = "json" /\ ~Readable(cacheFile)
  /\ BudgetHash \in DOMAIN cacheFile.data
  /\ cacheFile.data[BudgetHash].iso
  /\ WithinRetention(cacheFile.data[BudgetHash], now)
  /\ CountHash(result, BudgetHash) = 1

\* the fingerprint fetch_all_news computes for an entry with title and link
EntryHash(entry) ==
  generate_article_hash([title |-> Prefix(entry.title, HashTitleLen),
                         link |-> entry.link])

\* the fingerprints of the entries of a feed that pass the freshness filter
PassingHashes(entries, t) ==
  { EntryHash(entries[k]) :
      k \in { n \in 1..Len(entries) :
                /\ WellFormed(entries[n])
                /\ is_fresh_article(Get(entries[n], "published",
                                        Get(entries[n], "updated", Recent)), t) } }

\* C26: going through one source in IndiaNewsDigest.fetch_all_news, the
\* seen set only grows, and it grows by exactly the fingerprints of the
\* entries that passed the freshness filter and were not in the set; the
\* article list keeps its articles and gains one article for each such
\* fingerprint, so that an entry rejected as stale or skipped as a duplicate
\* changes neither.  The seen set never shrinks while the run goes on.
C26_SkippedEntriesChangeNothing ==
  /\ [][(prog = "india" /\ pc = "fetch" /\ src' = src + 1) =>
          LET added == seen_articles' \ seen_articles
              n == Len(all_articles)
          IN  /\ seen_articles \subseteq seen_articles'
              /\ added = PassingHashes(last_feed', now) \ seen_articles
              /\ Len(all_articles') = n + Cardinality(added)
              /\ SubSeq(all_articles', 1, n) = all_articles
              /\ { all_articles'[k].hash : k \in (n + 1)..Len(all_articles') }
                   = added]_vars
  /\ [][(prog = "india" /\ pc = "fetch") =>
          seen_articles \subseteq seen_articles']_vars

\* a source gave a stale entry and the same fresh entry twice: the stale
\* entry is not in the seen set and the repeated one has one article
C26_Witness ==
  /\ prog = "india" /\ pc = "fetch" /\ src > 1
  /\ \E i, j, k \in 1..Len(last_feed) :
       /\ WellFormed(last_feed[i])
       /\ ~is_fresh_article(Get(last_feed[i], "published", Recent), now)
       /\ EntryHash(last_feed[i]) \notin seen_articles
       /\ j < k /\ last_feed[j] = last_feed[k]
       /\ EntryHash(last_feed[j]) \in seen_articles
       /\ CountHash(all_articles, EntryHash(last_feed[j])) = 1

\* C27: when IndiaNewsDigest.fetch_all_news returns, every fingerprint the
\* run added to the seen set is the fingerprint of an article of the
\* returned list.
C27_NewlySeenAreReturned ==
  Returned =>
    \A h \in seen_articles \ loaded : CountHash(result, h) = 1

\* an SMTP conversation in which send_message went through
Transmitted(attempt) == attempt.outcome \in { "ok", "lost_after_send" }

\* C28: in every send_email call at most one of the transports tried has
\* transmitted the message.
C28_TransmittedAtMostOnce ==
  \A c \in 1..Len(send_calls) :
    Cardinality({ k \in 1..Len(send_calls[c].attempts) :
                    Transmitted(send_calls[c].attempts[k]) }) <= 1

\* C29: in a local run the email is tried only after the one attempt to
\* save the file, and a run that reaches its banner has tried the save once
\* and the email once if the credentials are configured and not at all
\* otherwise, whether or not the file was written.  In a GitHub Actions run
\* the save is tried only after the one email call has returned False.
C29_SaveAndSendOrder ==
  /\ ~env.is_github_actions =>
       /\ (pc = "send" \/ send_calls # << >>) =>
            Len(save_calls) = 1 /\ env.credentials
       /\ pc = "banner" =>
            /\ Len(save_calls) = 1
            /\ Len(send_calls) = IF env.credentials THEN 1 ELSE 0
  /\ env.is_github_actions =>
       /\ (pc = "save" \/ save_calls # << >>) =>
            Len(send_calls) = 1 /\ ~send_calls[1].returned
       /\ pc = "banner" =>
            /\ Len(send_calls) = 1
            /\ Len(save_calls) = IF send_calls[1].returned THEN 0 ELSE 1

\* a local run with credentials could not write the file and has called
\* send_email all the same
C29_Witness ==
  /\ ~env.is_github_actions /\ env.credentials
  /\ pc = "banner"
  /\ Len(save_calls) = 1 /\ ~save_calls[1].written
  /\ Len(send_calls) = 1

\* both processes have returned from save_cache
BothSaved == prog = "india" /\ pc = "done" /\ peer.pc = "done"

\* C23: when the second process has written the cache file after the first
\* one's load_cache and before the first one's save_cache began, then after
\* the first one's save_cache the file holds every entry the second one
\* wrote with a timestamp within the retention window, and every
\* fingerprint of the first one's seen set.
C23_MergeKeepsTheOthersEntries ==
  (BothSaved /\ peer.in_time /\ peer.old_data.ok) =>
    /\ cacheFile.kind = "json"
    /\ \A h \in DOMAIN peer.written :
         WithinRetention(peer.written[h], now) => h \in DOMAIN cacheFile.data
    /\ seen_articles \subseteq DOMAIN cacheFile.data

\* the second process wrote a fingerprint the first one never saw, the
\* first one added one of its own, and the file holds both
C23_Witness ==
  /\ BothSaved /\ peer.in_time /\ peer.old_data.ok
  /\ \E h \in DOMAIN peer.written :
       h \notin seen_articles /\ h \notin loaded /\ h \in DOMAIN cacheFile.data
  /\ \E h \in seen_articles \ loaded :
       h \notin peer.seen /\ h \in DOMAIN cacheFile.data

\* C24: the writing of save_cache replaces the file by what was built from
\* the entries read earlier, whatever the file holds by then: nothing
\* compares the file with what was read.
C24_WriteIgnoresLaterChanges ==
  [][(prog = "india" /\ pc = "saving" /\ pc' = "done" /\ read_data.ok) =>
       cacheFile' = JsonFile(CacheData(read_data.data, seen_articles, now))]_vars

\* both processes have read the file and written it, and a fingerprint one
\* of them recorded in this run is not in the file
C24_Witness ==
  /\ BothSaved /\ read_data.ok /\ peer.old_data.ok
  /\ \E h \in (seen_articles \ loaded) \cup (peer.seen \ peer.loaded) :
       h \notin DOMAIN cacheFile.data

\* C25: at most one digest process started by the scheduler is running,
\* and while one runs the scheduler is inside job(), waiting for it.
C25_OneRunAtATime ==
  /\ children <= 1
  /\ children = 1 => sched_pc = "in_job"

\* the initial job and the 08:00 job have ended and the 18:00 job runs
C25_Witness ==
  /\ children = 1
  /\ due # << >> /\ Head(due) = "18:00"
  /\ \E i, k \in 1..Len(job_log) :
       i < k /\ job_log[i].job = "initial" /\ job_log[k].job = "08:00"

\* the time of a scheduled job has come and it has not been run since
Overdue(j) == j \in DOMAIN next_run /\ next_run[j] <= now

\* C30: main() is never left, whatever the jobs do: a job whose process
\* cannot be started or exits with an error returns like any other.  The
\* next run of a scheduled job moves only when that job has just been run,
\* and a scheduled job whose time has come is run.
C30_FailingJobDoesNotStopTheScheduler ==
  /\ [](sched_pc # "stopped")
  /\ [][\A j \in Jobs :
          (j \in DOMAIN next_run /\ next_run'[j] # next_run[j]) =>
            /\ job_log # << >>
            /\ job_log[Len(job_log)].job = j
            /\ job_log[Len(job_log)].slot = next_run[j]]_vars
  /\ \A j \in Jobs : Overdue(j) ~> ~Overdue(j)

\* a job whose process could not be started and a job whose process exited
\* with an error are followed by a scheduled job that was run
C30_Witness ==
  \E i, k, m \in 1..Len(job_log) :
    /\ i < m /\ k < m
    /\ job_log[i].ended = "spawn raised"
    /\ job_log[k].ended = "exit error"
    /\ job_log[m].job \in Jobs

====
